---- MODULE Spec2Model ----
(***************************************************************************)
(* A model of morpho_typing/types.py: ArcType, Field and ArcSchema.        *)
(*                                                                         *)
(* Field(...) construction runs range_validator; ArcSchema(fields=...)     *)
(* stores the list of fields; ArcSchema.validate_record(record) rebuilds   *)
(* one pydantic model per field (parameter_models) and validates the       *)
(* record positionally against them.                                       *)
(*                                                                         *)
(* Numbers are kept in half units (h = 2 * value) so that floats with a    *)
(* fractional part (10.5) are exact.  A Python value is a record          *)
(* [k, h, s]: k is the Python type ("int", "float", "str"), h the number   *)
(* in half units, s the text of a str.                                     *)
(***************************************************************************)
EXTENDS Integers, Sequences, FiniteSets, TLC

VARIABLES made, lastField, fields, phase, record, result

vars == <<made, lastField, fields, phase, record, result>>

-----------------------------------------------------------------------------
(* Bounds of the model *)

\* the longest list of fields a schema is built from
MaxFields == 2

\* records are tried up to one value longer than the longest schema
MaxRecord == MaxFields + 1

FieldNames == {"STEP", "HEIGHT"}
FieldUnits == {"m"}
\* the numbers a field_range is drawn from (integers, as in the docstring)
RangeValues == {0, 10}
\* the int, float (in half units: 10.0 and 10.5) and str values of a record
IntValues == {-1, 0, 10, 11}
FloatHalves == {20, 21}
Texts == {"x", "7"}

-----------------------------------------------------------------------------
(* Python values *)

PyInt(v) == [k |-> "int", h |-> 2 * v, s |-> ""]
PyFloat(h) == [k |-> "float", h |-> h, s |-> ""]
PyStr(s) == [k |-> "str", h |-> 0, s |-> s]

Values ==
    {PyInt(v) : v \in IntValues} \cup {PyFloat(h) : h \in FloatHalves}
        \cup {PyStr(s) : s \in Texts}

\* all sequences over S of length 0..n
SeqUpTo(S, n) == UNION {[1..m -> S] : m \in 0..n}

Records == SeqUpTo(Values, MaxRecord)

-----------------------------------------------------------------------------
(* ArcType *)

ArcType == {"INT", "DOUBLE", "FLOAT", "STRING"}

\* ArcType.native_type: the python_types mapping
native_type(t) ==
    CASE t = "INT" -> "int"
      [] t = "DOUBLE" -> "float"
      [] t = "FLOAT" -> "float"
      [] t = "STRING" -> "str"

-----------------------------------------------------------------------------
(* Field *)

\* a plausible slip in range_validator: > in place of >=
range_validator_gt(range) == ~(range[1] > range[2])

\* Field.range_validator: TRUE when the range is returned, FALSE when
\* ValueError is raised
range_validator(range) == ~(range[1] >= range[2])

\* Field(field_name=..., field_type=..., field_unit=..., field_range=...):
\* the Field object, or the ValidationError pydantic wraps the ValueError in
NewFieldObject(name, type, unit, range) ==
    IF range_validator(range)
    THEN [ok |-> TRUE,
          field |-> [field_name |-> name, field_type |-> type,
                     field_unit |-> unit, field_range |-> range]]
    ELSE [ok |-> FALSE,
          field |-> [field_name |-> name, field_type |-> type,
                     field_unit |-> unit, field_range |-> range]]

Ranges == RangeValues \X RangeValues

\* every Field object construction can produce from the model's inputs
FieldObjects ==
    {o.field : o \in {p \in {NewFieldObject(n, t, u, r) :
                                n \in FieldNames, t \in ArcType,
                                u \in FieldUnits, r \in Ranges} : p.ok}}

-----------------------------------------------------------------------------
(* ArcSchema.parameter_models *)

\* a plausible slip: the generated model is named after the field's type
model_name_of_type(field) == "parameter_" \o field.field_type

\* f"parameter_{field.field_name}": the __name__ of the created model
model_name(field) == "parameter_" \o field.field_name

\* one validating model per field, in field order; recomputed on every
\* access of the computed field
parameter_models(fs) ==
    [i \in 1..Len(fs) |->
        [name |-> model_name(fs[i]),
         native |-> native_type(fs[i].field_type),
         ge |-> fs[i].field_range[1],
         le |-> fs[i].field_range[2]]]

-----------------------------------------------------------------------------
(* parameter_model.validate({"value": item}) *)

\* the texts pydantic parses as a number, with the number in half units
TextNumber == ("7" :> 14)

Valid(h) == [kind |-> "valid", h |-> h, msg |-> ""]
Invalid(msg) == [kind |-> "ValidationError", h |-> 0, msg |-> msg]
Fatal == [kind |-> "TypeError", h |-> 0, msg |-> ""]

\* pydantic's lax conversion of item to the annotated native type
coerce(native, item) ==
    CASE native = "int" ->
            IF item.k = "int"
            THEN Valid(item.h)
            ELSE IF item.k = "float"
                 THEN IF item.h % 2 = 0
                      THEN Valid(item.h)
                      ELSE Invalid("Input should be a valid integer, got a number with a fractional part")
                 ELSE IF item.s \in DOMAIN TextNumber /\ TextNumber[item.s] % 2 = 0
                      THEN Valid(TextNumber[item.s])
                      ELSE Invalid("Input should be a valid integer, unable to parse string as an integer")
      [] native = "float" ->
            IF item.k \in {"int", "float"}
            THEN Valid(item.h)
            ELSE IF item.s \in DOMAIN TextNumber
                 THEN Valid(TextNumber[item.s])
                 ELSE Invalid("Input should be a valid number, unable to parse string as a number")
      [] native = "str" ->
            IF item.k = "str" THEN Valid(0) ELSE Invalid("Input should be a valid string")

\* a plausible slip: gt/lt (exclusive bounds) in place of ge/le
constrain_exclusive(h, ge, le) ==
    IF h >= 2 * le
    THEN Invalid("Input should be less than " \o ToString(le))
    ELSE IF h <= 2 * ge
         THEN Invalid("Input should be greater than " \o ToString(ge))
         ELSE Valid(h)

\* pydantic.Field(ge=..., le=...) on a number: both bounds inclusive
constrain(h, ge, le) ==
    IF h > 2 * le
    THEN Invalid("Input should be less than or equal to " \o ToString(le))
    ELSE IF h < 2 * ge
         THEN Invalid("Input should be greater than or equal to " \o ToString(ge))
         ELSE Valid(h)

\* the outcome of one model on one item.  On a str the ge/le constraints
\* run as plain comparisons of the str with a number, which raise
\* TypeError; TypeError is not a pydantic.ValidationError
validate(model, item) ==
    LET c == coerce(model.native, item) IN
    IF c.kind # "valid"
    THEN c
    ELSE IF model.native = "str"
         THEN Fatal
         ELSE constrain(c.h, model.ge, model.le)

-----------------------------------------------------------------------------
(* ArcSchema.validate_record *)

NoResult ==
    [kind |-> "none", is_valid |-> FALSE, errors |-> <<>>,
     checked |-> <<>>, expected |-> 0]

\* a plausible slip: the check only catches records that are too short
length_mismatch_short(rec, models) == Len(rec) < Len(models)

\* if len(record) != len(self.parameter_models)
length_mismatch(rec, models) == Len(rec) # Len(models)

\* a plausible slip: errors is shared between calls instead of a fresh list
errors_shared == result.errors

\* errors = []
errors_init == <<>>

\* a plausible slip: a single error still counts as valid
return_pair_gt1(errors, checked) ==
    IF Len(errors) > 1
    THEN [kind |-> "returned", is_valid |-> FALSE, errors |-> errors,
          checked |-> checked, expected |-> 0]
    ELSE [kind |-> "returned", is_valid |-> TRUE, errors |-> <<>>,
          checked |-> checked, expected |-> 0]

\* if len(errors) > 0: return (False, errors) else: return (True, [])
return_pair(errors, checked) ==
    IF Len(errors) > 0
    THEN [kind |-> "returned", is_valid |-> FALSE, errors |-> errors,
          checked |-> checked, expected |-> 0]
    ELSE [kind |-> "returned", is_valid |-> TRUE, errors |-> <<>>,
          checked |-> checked, expected |-> 0]

Min(a, b) == IF a <= b THEN a ELSE b

\* for item, parameter_model in zip(record, self.parameter_models): ...
\* checked is the outcome of every model run so far, in order (not part of
\* the program's state: it records which per-field rules were evaluated)
RECURSIVE check_from(_, _, _, _, _)
check_from(rec, models, i, errors, checked) ==
    IF i > Min(Len(rec), Len(models))
    THEN return_pair(errors, checked)
    ELSE LET out == validate(models[i], rec[i]) IN
         CASE out.kind = "valid" ->
                check_from(rec, models, i + 1, errors, Append(checked, "valid"))
           [] out.kind = "ValidationError" ->
                check_from(rec, models, i + 1,
                           Append(errors, <<out.msg, models[i].name>>),
                           Append(checked, "ValidationError"))
           [] out.kind = "TypeError" ->
                [kind |-> "TypeError", is_valid |-> FALSE, errors |-> <<>>,
                 checked |-> Append(checked, "TypeError"), expected |-> 0]

\* self.validate_record(record): the (is_valid, errors) pair, or the
\* exception the call ends with
validate_record(fs, rec) ==
    IF length_mismatch(rec, parameter_models(fs))
    THEN [kind |-> "Exception", is_valid |-> FALSE, errors |-> <<>>,
          checked |-> <<>>, expected |-> Len(parameter_models(fs))]
    ELSE check_from(rec, parameter_models(fs), 1, errors_init, <<>>)

-----------------------------------------------------------------------------
(* The caller: building fields and a schema *)

NoField == [tried |-> FALSE, range |-> <<0, 0>>, ok |-> FALSE]

InitNew ==
    /\ made = <<>>
    /\ lastField = NoField
    /\ fields = <<>>
    /\ phase = "building"
    /\ record = <<>>
    /\ result = NoResult

\* Field(field_name=name, field_type=type, field_unit=unit, field_range=range):
\* the caller keeps the object when construction succeeds; lastField records
\* how the latest construction ended
NewField(name, type, unit, range) ==
    /\ phase = "building"
    /\ Len(made) < MaxFields
    /\ LET o == NewFieldObject(name, type, unit, range) IN
       /\ lastField' = [tried |-> TRUE, range |-> range, ok |-> o.ok]
       /\ made' = IF o.ok THEN Append(made, o.field) ELSE made
    /\ UNCHANGED <<fields, phase, record, result>>

\* ArcSchema(fields=made): no validator runs on the list of fields
NewSchema ==
    /\ phase = "building"
    /\ fields' = made
    /\ phase' = "ready"
    /\ UNCHANGED <<made, lastField, record, result>>

NextNew ==
    \/ \E name \in FieldNames, type \in ArcType, unit \in FieldUnits, range \in Ranges :
            NewField(name, type, unit, range)
    \/ NewSchema

SpecNew == InitNew /\ [][NextNew]_vars

-----------------------------------------------------------------------------
(* The caller: validating records against a constructed schema *)

\* every schema the construction above can end with
Schemas == SeqUpTo(FieldObjects, MaxFields)

Init ==
    /\ fields \in Schemas
    /\ made = fields
    /\ lastField = NoField
    /\ phase = "ready"
    /\ record = <<>>
    /\ result = NoResult

\* schema.validate_record(rec), for any record rec
ValidateRecord ==
    /\ phase = "ready"
    /\ result.kind = "none"
    /\ \E rec \in Records :
        /\ record' = rec
        /\ result' = validate_record(fields, rec)
    /\ UNCHANGED <<made, lastField, fields, phase>>

\* schema.validate_record(record) once more, with the record of the last call
ValidateAgain ==
    /\ phase = "ready"
    /\ result.kind # "none"
    /\ record' = record
    /\ result' = validate_record(fields, record)
    /\ UNCHANGED <<made, lastField, fields, phase>>

\* the caller drops the outcome of the last call
Discard ==
    /\ phase = "ready"
    /\ result.kind # "none"
    /\ record' = <<>>
    /\ result' = NoResult
    /\ UNCHANGED <<made, lastField, fields, phase>>

Next ==
    \/ ValidateRecord
    \/ ValidateAgain
    \/ Discard

Spec == Init /\ [][Next]_vars

-----------------------------------------------------------------------------
(* Vocabulary of the properties *)

Called == phase = "ready" /\ result.kind # "none"

Returned == phase = "ready" /\ result.kind = "returned"

SameLength == Len(record) = Len(fields)

Positions == 1..Min(Len(record), Len(fields))

Numeric(f) == f.field_type \in {"INT", "DOUBLE", "FLOAT"}

\* the value at position i has the native kind of field i
OfFieldKind(i) == record[i].k = native_type(fields[i].field_type)

\* the value at position i lies in the inclusive range of field i
InRange(i) ==
    /\ 2 * fields[i].field_range[1] <= record[i].h
    /\ record[i].h <= 2 * fields[i].field_range[2]

\* the outcome of field i's rule on the value at position i
RuleAt(i) == validate(parameter_models(fields)[i], record[i])

\* the positions whose value fails its field's rule, in increasing order
FailingPositions ==
    SelectSeq([i \in Positions |-> i],
              LAMBDA i : RuleAt(i).kind = "ValidationError")

\* the value at position i cannot be converted to the native kind of field i
Uncoercible(i) ==
    coerce(native_type(fields[i].field_type), record[i]).kind = "ValidationError"

-----------------------------------------------------------------------------
(* Properties *)

\* C1: a call with a record whose length differs from the number of fields
\* ends with the length-mismatch exception, which carries the number of
\* fields; no (is_valid, errors) pair is returned and no per-field rule has
\* been evaluated.
C1_LengthMismatch ==
    (Called /\ ~SameLength) =>
        /\ result.kind = "Exception"
        /\ result.expected = Len(fields)
        /\ result.checked = <<>>
        /\ result.errors = <<>>

\* a record longer than a non-empty schema was refused
C1_Witness ==
    /\ Called
    /\ Len(fields) > 0
    /\ Len(record) > Len(fields)
    /\ result.kind = "Exception"

\* C2 (as claimed): for a record as long as the schema, every position is
\* checked and a pair is returned whose error list has exactly the failing
\* positions, in increasing order, whatever happened at other positions.
C2_AllFailuresReported ==
    (Called /\ SameLength /\ FailingPositions # <<>>) =>
        /\ result.kind = "returned"
        /\ Len(result.checked) = Len(fields)
        /\ Len(result.errors) = Len(FailingPositions)
        /\ \A j \in 1..Len(FailingPositions) :
                result.errors[j] =
                    <<RuleAt(FailingPositions[j]).msg,
                      model_name(fields[FailingPositions[j]])>>

\* C3: on a numeric field, a value of the field's native kind passes the
\* field's rule exactly when low <= value <= high; otherwise the rule ends
\* with a validation error for that field.
C3_InclusiveRange ==
    Called =>
        \A i \in 1..Len(result.checked) :
            (Numeric(fields[i]) /\ OfFieldKind(i)) =>
                /\ (result.checked[i] = "valid") <=> InRange(i)
                /\ ~InRange(i) => result.checked[i] = "ValidationError"
                /\ (~InRange(i) /\ result.kind = "returned") =>
                        \E j \in 1..Len(result.errors) :
                            /\ FailingPositions[j] = i
                            /\ result.errors[j][2] = model_name(fields[i])

\* a float equal to high passed a DOUBLE field and an int just below low
\* failed an INT field, in one call
C3_Witness ==
    /\ Returned
    /\ Len(fields) = 2
    /\ fields[1].field_type = "DOUBLE"
    /\ record[1] = PyFloat(2 * fields[1].field_range[2])
    /\ result.checked[1] = "valid"
    /\ fields[2].field_type = "INT"
    /\ record[2] = PyInt(fields[2].field_range[1] - 1)
    /\ result.checked[2] = "ValidationError"

\* C4: Field construction succeeds exactly when low < high, and every field
\* the caller holds or a schema contains has low < high.
C4_RangeValidated ==
    /\ lastField.tried =>
            (lastField.ok <=> lastField.range[1] < lastField.range[2])
    /\ \A i \in 1..Len(made) : made[i].field_range[1] < made[i].field_range[2]
    /\ \A i \in 1..Len(fields) : fields[i].field_range[1] < fields[i].field_range[2]

\* a construction with low = high was refused
C4_Witness ==
    /\ lastField.tried
    /\ ~lastField.ok
    /\ lastField.range[1] = lastField.range[2]

\* C5 (as claimed): a str submitted for a STRING field passes the field's
\* rule and the call does not end with a fatal failure because of it.
C5_StringUnconstrained ==
    (Called /\ SameLength) =>
        \A i \in Positions :
            (fields[i].field_type = "STRING" /\ record[i].k = "str") =>
                /\ RuleAt(i).kind = "valid"
                /\ result.kind = "returned"

\* C6 (as claimed): the identifier of every entry of the error list is the
\* name of the field at the failing position.
C6_IdentifierIsFieldName ==
    Returned =>
        /\ Len(result.errors) = Len(FailingPositions)
        /\ \A j \in 1..Len(result.errors) :
                result.errors[j][2] = fields[FailingPositions[j]].field_name

\* C6 (amended): every entry of the error list is a (message, identifier)
\* pair whose identifier is "parameter_" followed by the name of the field
\* at the failing position.
C6_IdentifierIsModelName ==
    Returned =>
        /\ Len(result.errors) = Len(FailingPositions)
        /\ \A j \in 1..Len(result.errors) :
                /\ Len(result.errors[j]) = 2
                /\ result.errors[j][2] =
                        "parameter_" \o fields[FailingPositions[j]].field_name

\* an out-of-range value for the field named STEP was reported
C6_Witness ==
    /\ Returned
    /\ Len(fields) = 2
    /\ fields[1].field_name = "STEP"
    /\ fields[1].field_type = "INT"
    /\ record[1] = PyInt(fields[1].field_range[2] + 1)
    /\ Len(result.errors) = 1

\* C7: in a returned pair is_valid is true exactly when the error list is
\* empty, which is exactly when no position fails its rule.
C7_ValidIffNoErrors ==
    Returned =>
        /\ result.is_valid <=> result.errors = <<>>
        /\ result.is_valid <=> FailingPositions = <<>>

\* a pair with exactly one error was returned
C7_Witness ==
    /\ Returned
    /\ ~result.is_valid
    /\ Len(result.errors) = 1
    /\ Len(fields) = 2

\* C8 (as claimed): a value that cannot be converted to its field's native
\* kind is reported as an entry of the returned error list, the call does
\* not end with a fatal failure, and every position is checked.
C8_CoercionFailureReported ==
    (Called /\ SameLength) =>
        \A i \in Positions :
            Uncoercible(i) =>
                /\ result.kind = "returned"
                /\ Len(result.checked) = Len(record)
                /\ \E j \in 1..Len(result.errors) :
                        result.errors[j][2] = model_name(fields[i])

C10_UniqueNames ==
    phase = "ready" =>
        \A i, j \in 1..Len(fields) :
            fields[i].field_name = fields[j].field_name => i = j

====
